---- MODULE Spec2Model ----
(***************************************************************************)
(* Model of the reply bot: the deduplication State Store                   *)
(* (src/state_manager.py) and the Iteration Engine (src/bot.py) driven by  *)
(* the control loop (src/main.py).                                         *)
(*                                                                         *)
(* The specifications share the variables and the store actions:           *)
(*   SpecStore  the State Store alone, called in any order by a harness,   *)
(*              over state files of every shape, with I/O failures and     *)
(*              crashes at every step;                                     *)
(*   Spec       the engine in one run of the process: boot (load), passes  *)
(*              over fetched batches, end-of-pass save;                    *)
(*   SpecCrash  Spec with a kill of the process at any point and a restart;*)
(*   SpecLoop   Spec with shutdown signals: the cancellation of the main   *)
(*              task, the final save and the close of the client;          *)
(*   SpecPace   the first pass of a process over longer batches of tweets  *)
(*              that all have text;                                        *)
(*   SpecLive   passes without end over a timeline that always delivers    *)
(*              one wanted tweet, under weak fairness;                     *)
(*   SpecFallback  Spec in a build whose twikit.errors has no NotFound     *)
(*              (NotFound = None after the import fallback);               *)
(*   SpecExplain  the tweet normalizer of src/explain_tweet.py.            *)
(***************************************************************************)
EXTENDS Integers, Sequences, FiniteSets, TLC

\* ------------------------------------------------------------------ bounds
\* Number of tweet identifiers: 9 .. 8+NumIds (as strings, "9" sorts after "10")
NumIds == 2
\* max_memory_size of the State Store, scaled down from the default 10000
MaxMemorySize == 1
\* Length of the longest batch a fetch delivers
MaxBatch == 2
\* Length of the longest batch in SpecPace, and the number of its tweets
PaceBatch == 3

Ids == 9 .. (8 + NumIds)

\* The tweets of SpecPace's timeline
PaceIds == 10 .. (9 + PaceBatch)

AllIds == Ids \cup PaceIds

VARIABLES
  processed_ids,   \* StateManager.processed_ids: a set of strings
  file,            \* content at the state file path
  tmp,             \* content at the temp path (state file suffix + ".tmp")
  baks,            \* backup files: records [reason, counter, content]
  spc,             \* position inside a State Store call ("idle": none running)
  ids_to_save,     \* save()'s local list
  lock,            \* StateManager._lock is held
  ret,             \* how the last finished State Store call ended
  pc,              \* position of the process (control loop and pass)
  tweets,          \* run_iteration's fetched batch, in delivery order
  i,               \* enumerate index over reversed(tweets)
  processed_count, reply_count, error_count, state_changed,
  main_task,       \* main.py: main_task is set (the main loop was entered)
  shutdown_requested, \* main.py: the global flag the signal handler sets
  closed,          \* the timeline client's close() was called
  final_saves,     \* history: number of final saves attempted by main_loop
  pauses,          \* history: pacing sleeps started in this pass
  marked,          \* history: mark_processed was called in this pass
  evicted,         \* history: mark_processed evicted a member in this run
  evictedEver,     \* history: ... in any run
  hist,            \* history: how the last dispatch of each id ended, this run
  okEver,          \* history: ids that received a successful reply, any run
  calls,           \* history: mark_processed and tweet.reply calls made for
                   \* the tweet being dispatched
  committed,       \* history: the set written by the last successful save
  last             \* history: what the most recent engine step did

fsVars    == <<file, tmp, baks>>
callVars  == <<spc, ids_to_save, ret, lock>>
passVars  == <<tweets, i, processed_count, reply_count, error_count, state_changed,
               pauses>>
loopVars  == <<main_task, shutdown_requested, closed, final_saves>>
runHist   == <<evicted, evictedEver, marked>>
postHist  == <<hist, okEver, calls>>
vars == <<processed_ids, file, tmp, baks, spc, ids_to_save, ret, lock, pc, tweets, i,
          processed_count, reply_count, error_count, state_changed,
          main_task, shutdown_requested, closed, final_saves, pauses, marked,
          evicted, evictedEver, hist, okEver, calls, committed, last>>

\* ----------------------------------------------------------------- strings
Max(a, b) == IF a >= b THEN a ELSE b

Range(s) == {s[k] : k \in 1..Len(s)}

\* str(n) of a non-negative integer: its decimal digits.
RECURSIVE Digits(_)
Digits(n) == IF n < 10 THEN <<n>> ELSE Append(Digits(n \div 10), n % 10)

\* Python's < on strings: lexicographic, a proper prefix is smaller.
RECURSIVE StrLess(_, _)
StrLess(a, b) ==
  IF a = <<>> THEN b # <<>>
  ELSE IF b = <<>> THEN FALSE
  ELSE IF Head(a) # Head(b) THEN Head(a) < Head(b)
  ELSE StrLess(Tail(a), Tail(b))

\* sorted(list(S)) for a set of strings.
RECURSIVE SortedSeq(_)
SortedSeq(S) ==
  IF S = {} THEN <<>>
  ELSE LET m == CHOOSE x \in S : \A y \in S \ {x} : StrLess(x, y)
       IN  <<m>> \o SortedSeq(S \ {m})

\* ------------------------------------------------------------ JSON values
JStr(s) == [t |-> "str", n |-> 0, s |-> s]
JInt(n) == [t |-> "int", n |-> n, s |-> <<>>]
JNull   == [t |-> "null", n |-> 0, s |-> <<>>]

\* str(item) for an item of a parsed JSON list.
PyStr(item) == IF item.t = "int" THEN Digits(item.n) ELSE item.s

\* File contents. kind: "absent", "blank" (empty or whitespace only), "list"
\* (a JSON list), "nonlist" (valid JSON, not a list), "garbage" (invalid
\* JSON), "partial" (a truncated write), "unreadable" (the file can be
\* stat'ed and renamed, but open or read raises), "inaccessible" (the
\* directory of the state file denies search permission: stat, open and
\* rename of the paths in it raise PermissionError).
Content(kind) == [kind |-> kind, items |-> <<>>]
Absent == Content("absent")

\* json.dumps of a list of strings, as file content.
JsonDump(seq) == [kind |-> "list", items |-> [k \in 1..Len(seq) |-> JStr(seq[k])]]

\* ------------------------------------------------------- State Store: data
\* Variant of IsProcessed that looks the id up without the str() conversion
\* of its digits.
IsProcessedUnconverted(S, tid) == <<tid>> \in S

\* is_processed(tweet_id): str(tweet_id) in self.processed_ids
IsProcessed(S, tid) == Digits(tid) \in S

\* Variant of AtCapacity that lets the set grow one past the limit.
AtCapacityOffByOne(S) == Cardinality(S) > MaxMemorySize

\* mark_processed's capacity test, made before adding
AtCapacity(S) == Cardinality(S) >= MaxMemorySize

\* Variant of Evicts that tests the capacity before the membership.
EvictsAtCapacity(S, tid) == AtCapacity(S)

\* TRUE when mark_processed(tid) on S pops a member
Evicts(S, tid) == Digits(tid) \notin S /\ AtCapacity(S)

\* The members set.pop() may remove: any one (<<>> stands for "no pop").
Victims(S, tid) == IF Evicts(S, tid) THEN S ELSE {<<>>}

\* Variant of MarkedSet that adds the id only when nothing was popped.
MarkedSetAddsBelowCapacity(S, tid, victim) ==
  IF Evicts(S, tid) THEN S \ {victim} ELSE S \cup {Digits(tid)}

\* processed_ids after mark_processed(tid), given the member pop() removed
MarkedSet(S, tid, victim) ==
  IF Digits(tid) \in S THEN S
  ELSE IF Evicts(S, tid) THEN (S \ {victim}) \cup {Digits(tid)}
  ELSE S \cup {Digits(tid)}

\* load: {str(item) for item in ids_from_file if item is not None}
ValidIds(items) ==
  {PyStr(items[k]) : k \in {j \in 1..Len(items) : items[j].t # "null"}}

\* Variant of KeepLatest whose start index is one too far.
KeepLatestOffByOne(sorted_ids) ==
  LET start_index == Max(0, Len(sorted_ids) - MaxMemorySize + 1)
  IN  SubSeq(sorted_ids, start_index + 1, Len(sorted_ids))

\* load: sorted_ids[start_index:], start_index = max(0, len - max_memory_size)
KeepLatest(sorted_ids) ==
  LET start_index == Max(0, Len(sorted_ids) - MaxMemorySize)
  IN  SubSeq(sorted_ids, start_index + 1, Len(sorted_ids))

\* processed_ids after load of a file holding a JSON list
LoadedIds(items) == Range(KeepLatest(SortedSeq(ValidIds(items))))

\* The exception load's try body raises on a file content ("none": none).
LoadRaises(f) ==
  CASE f.kind \in {"garbage", "partial"} -> "JSONDecodeError"
    [] f.kind = "unreadable"             -> "OSError"
    [] OTHER                             -> "none"

\* load's except clauses: the backup reason the handler of `exc` uses
\* ("fresh": handled without a backup; "propagate": no handler catches it).
LoadHandler(exc) ==
  CASE exc = "FileNotFoundError" -> "fresh"
    [] exc = "JSONDecodeError"   -> "json_decode_error"
    [] OTHER                     -> "unexpected_load_error"

\* Path.exists() raises instead of answering: stat fails with an error
\* other than "not found" (load calls it before its try block, save inside
\* its except handler).
ExistsRaises(f) == f.kind = "inaccessible"

\* The reason load backs the file up with, "none" when it does not, and
\* "propagate" when load raises to its caller.
BackupReason(f) ==
  IF ExistsRaises(f) THEN "propagate"
  ELSE IF f.kind = "nonlist" THEN "invalid_format"
  ELSE IF LoadRaises(f) # "none" THEN LoadHandler(LoadRaises(f))
  ELSE "none"

\* Variant of FreeCounter without the loop over the names in use.
FreeCounterFirstName(B, suffix, counter) == counter

\* _backup_corrupt_file: the first counter whose backup name is unused
\* (0 is "<suffix>.bak", k > 0 is "<suffix>_k.bak").
RECURSIVE FreeCounter(_, _, _)
FreeCounter(B, suffix, counter) ==
  IF \E b \in B : b.reason = suffix /\ b.counter = counter
  THEN FreeCounter(B, suffix, counter + 1)
  ELSE counter

\* Variant of IdsToSave that trims a list already at the limit.
IdsToSaveTrimsAtLimit(S) ==
  LET s == SortedSeq(S)
  IN  IF Len(s) >= MaxMemorySize
      THEN SubSeq(s, Len(s) - MaxMemorySize + 2, Len(s))
      ELSE s

\* save: sorted ids, trimmed to the last max_memory_size
IdsToSave(S) ==
  LET s == SortedSeq(S)
  IN  IF Len(s) > MaxMemorySize
      THEN SubSeq(s, Len(s) - MaxMemorySize + 1, Len(s))
      ELSE s

\* Variant of SaveTarget that writes the state file in place.
SaveTargetInPlace == "file"

\* save: the path the new content is first written to
SaveTarget == "tmp"

\* ------------------------------------------------------ file system steps
At(path) == IF path = "tmp" THEN tmp ELSE file

WritePath(path, content) ==
  IF path = "tmp" THEN tmp' = content /\ UNCHANGED file
                  ELSE file' = content /\ UNCHANGED tmp

\* os.replace(path, state file path)
ReplacePath(path) ==
  IF path = "tmp" THEN file' = tmp /\ tmp' = Absent
                  ELSE UNCHANGED <<file, tmp>>

\* os.remove(path)
RemovePath(path) == WritePath(path, Absent)

\* Whether os.remove of the temp file succeeds. Its failure (logged, the
\* temp file stays) is explored by the store harness; the engine
\* specifications take the removal to succeed.
RemoveOutcomes == IF pc = "harness" THEN BOOLEAN ELSE {TRUE}

\* ---------------------------------------------------- State Store: calls
\* Variant of ReleasesLock that releases the lock only when save succeeded.
ReleasesLockOnSuccess(r) == r = "save_ok"

\* `async with self._lock`: whether the lock is released when the block is
\* left with outcome r (a return, an exception or a cancellation)
ReleasesLock(r) == TRUE

\* mark_processed(tid), one atomic step (no suspension under the lock; the
\* call waits while the lock is held)
MarkProcessed(tid) ==
  \E victim \in Victims(processed_ids, tid) :
    /\ ~lock
    /\ processed_ids' = MarkedSet(processed_ids, tid, victim)
    /\ evicted' = (evicted \/ Evicts(processed_ids, tid))
    /\ evictedEver' = (evictedEver \/ Evicts(processed_ids, tid))
    /\ marked' = TRUE

\* _backup_corrupt_file(suffix); os.rename may raise OSError (absorbed)
BackupCorruptFile(suffix, renameOk) ==
  IF file = Absent \/ ~renameOk
  THEN UNCHANGED <<file, baks>>
  ELSE /\ file' = Absent
       /\ baks' = baks \cup {[reason  |-> suffix,
                              counter |-> FreeCounter(baks, suffix, 0),
                              content |-> file]}

\* load(), one atomic step
Load(renameOk) ==
  LET reason == BackupReason(file) IN
  IF reason = "propagate"
  THEN /\ ~lock
       /\ ret' = "load_raised"
       /\ UNCHANGED <<processed_ids, file, baks>>
  ELSE /\ ~lock
       /\ ret' = "load_ok"
       /\ processed_ids' = IF file.kind = "list" THEN LoadedIds(file.items) ELSE {}
       /\ IF reason \in {"none", "fresh"}
          THEN UNCHANGED <<file, baks>>
          ELSE BackupCorruptFile(reason, renameOk)

\* Whether load attempts a rename on the current file
LoadRenames == BackupReason(file) \notin {"none", "fresh", "propagate"}

\* save() entered: the lock is taken and ids_to_save computed under it
SaveCall ==
  /\ ~lock
  /\ lock' = TRUE
  /\ spc' = "save_mkdir"
  /\ ids_to_save' = IdsToSave(processed_ids)
  /\ ret' = "none"

\* self.file_path.parent.mkdir(parents=True, exist_ok=True)
SaveMkdir ==
  /\ spc = "save_mkdir"
  /\ \E ok \in BOOLEAN : spc' = IF ok THEN "save_open" ELSE "save_except"
  /\ UNCHANGED <<processed_ids, fsVars, ids_to_save, ret, lock, pc, passVars,
                 loopVars, runHist, postHist, committed, last>>

\* aiofiles.open(temp_file_path, mode='w'): creates or truncates
SaveOpen ==
  /\ spc = "save_open"
  /\ \E ok \in (IF ExistsRaises(file) THEN {FALSE} ELSE BOOLEAN) :
       IF ok THEN spc' = "save_write" /\ WritePath(SaveTarget, Content("blank"))
             ELSE spc' = "save_except" /\ UNCHANGED <<file, tmp>>
  /\ UNCHANGED <<processed_ids, baks, ids_to_save, ret, lock, pc, passVars,
                 loopVars, runHist, postHist, committed, last>>

\* f.write(json.dumps(ids_to_save, indent=2)) and close
SaveWrite ==
  /\ spc = "save_write"
  /\ \E ok \in BOOLEAN :
       IF ok THEN spc' = "save_replace" /\ WritePath(SaveTarget, JsonDump(ids_to_save))
             ELSE spc' = "save_except" /\ WritePath(SaveTarget, Content("partial"))
  /\ UNCHANGED <<processed_ids, baks, ids_to_save, ret, lock, pc, passVars,
                 loopVars, runHist, postHist, committed, last>>

\* os.replace(temp_file_path, self.file_path)
SaveReplace ==
  /\ spc = "save_replace"
  /\ \E ok \in BOOLEAN :
       IF ok THEN /\ ReplacePath(SaveTarget)
                  /\ spc' = "idle"
                  /\ ret' = "save_ok"
                  /\ ids_to_save' = <<>>
                  /\ lock' = (lock /\ ~ReleasesLock(ret'))
                  /\ committed' = [valid |-> TRUE, ids |-> processed_ids]
             ELSE /\ spc' = "save_except"
                  /\ UNCHANGED <<file, tmp, ret, ids_to_save, lock, committed>>
  /\ UNCHANGED <<processed_ids, baks, pc, passVars, loopVars, runHist, postHist, last>>

\* except Exception: log, remove the temp file if temp_file_path.exists();
\* no re-raise, but an exception of exists() itself leaves save
SaveExcept ==
  /\ spc = "save_except"
  /\ IF ExistsRaises(file)
     THEN ret' = "save_raised" /\ UNCHANGED <<file, tmp>>
     ELSE /\ ret' = "save_failed"
          /\ \E ok \in RemoveOutcomes :
               IF At(SaveTarget) # Absent /\ ok
               THEN RemovePath(SaveTarget)
               ELSE UNCHANGED <<file, tmp>>
  /\ spc' = "idle"
  /\ ids_to_save' = <<>>
  /\ lock' = (lock /\ ~ReleasesLock(ret'))
  /\ UNCHANGED <<processed_ids, baks, pc, passVars, loopVars, runHist, postHist,
                 committed, last>>

SaveStep == SaveMkdir \/ SaveOpen \/ SaveWrite \/ SaveReplace \/ SaveExcept

\* No call made yet for the tweet at hand
NoCalls == [marks |-> 0, posts |-> 0]

\* The process dies (kill, power loss of the process): memory is lost, the
\* files stay; a write in progress may leave a truncated file behind.
Die ==
  /\ spc' = "dead"
  /\ \/ UNCHANGED <<file, tmp>>
     \/ spc = "save_write" /\ WritePath(SaveTarget, Content("partial"))
  /\ processed_ids' = {}
  /\ ids_to_save' = <<>>
  /\ lock' = FALSE
  /\ ret' = "none"
  /\ evicted' = FALSE
  /\ marked' = FALSE
  /\ hist' = [x \in AllIds |-> "none"]
  /\ calls' = NoCalls
  /\ last' = [ev |-> "none", id |-> 0]
  /\ tweets' = <<>> /\ i' = 0
  /\ processed_count' = 0 /\ reply_count' = 0 /\ error_count' = 0
  /\ state_changed' = FALSE
  /\ pauses' = 0
  /\ main_task' = FALSE /\ shutdown_requested' = FALSE
  /\ closed' = FALSE /\ final_saves' = 0
  /\ UNCHANGED <<baks, evictedEver, okEver, committed>>

\* ------------------------------------------------- SpecStore: the harness
\* State files a run may find: absent, blank, not JSON, JSON but no list,
\* unreadable, in an inaccessible directory, a list over capacity, and a list with an integer, a null and
\* a duplicate (the lists within capacity are the ones save writes).
InitFiles ==
  {Content(k) : k \in {"absent", "blank", "garbage", "nonlist", "unreadable",
                       "inaccessible"}}
  \cup {JsonDump(SortedSeq({Digits(n) : n \in Ids}))}
  \cup {[kind |-> "list", items |-> <<JInt(9), JNull, JStr(Digits(9)), JStr(Digits(10))>>]}

InitBaks ==
  {{}, {[reason |-> "json_decode_error", counter |-> 0, content |-> Content("garbage")]},
   {[reason |-> "json_decode_error", counter |-> 0, content |-> Content("garbage")],
    [reason |-> "json_decode_error", counter |-> 1, content |-> Content("garbage")]}}

InitCommon ==
  /\ processed_ids = {}
  /\ tmp = Absent
  /\ spc = "idle"
  /\ ids_to_save = <<>>
  /\ lock = FALSE
  /\ ret = "none"
  /\ tweets = <<>> /\ i = 0
  /\ processed_count = 0 /\ reply_count = 0 /\ error_count = 0
  /\ state_changed = FALSE
  /\ pauses = 0
  /\ main_task = FALSE /\ shutdown_requested = FALSE
  /\ closed = FALSE /\ final_saves = 0
  /\ evicted = FALSE /\ evictedEver = FALSE /\ marked = FALSE
  /\ hist = [x \in AllIds |-> "none"]
  /\ okEver = {}
  /\ calls = NoCalls
  /\ committed = [valid |-> FALSE, ids |-> {}]
  /\ last = [ev |-> "none", id |-> 0]

InitStore ==
  /\ InitCommon
  /\ pc = "harness"
  /\ file \in InitFiles
  /\ baks \in InitBaks

HarnessLoad ==
  /\ pc = "harness" /\ spc = "idle"
  /\ \E renameOk \in (IF LoadRenames THEN BOOLEAN ELSE {TRUE}) : Load(renameOk)
  /\ UNCHANGED <<tmp, spc, ids_to_save, lock, pc, passVars, loopVars, runHist, postHist,
                 committed, last>>

HarnessMark ==
  /\ pc = "harness" /\ spc = "idle"
  /\ \E tid \in Ids : MarkProcessed(tid) /\ last' = [ev |-> "mark", id |-> tid]
  /\ ret' = "mark"
  /\ UNCHANGED <<fsVars, spc, ids_to_save, lock, pc, passVars, loopVars, postHist,
                 committed>>

HarnessSave ==
  /\ pc = "harness" /\ spc = "idle"
  /\ SaveCall
  /\ UNCHANGED <<processed_ids, fsVars, pc, passVars, loopVars, runHist, postHist,
                 committed, last>>

HarnessCrash ==
  /\ pc = "harness" /\ spc # "dead"
  /\ Die
  /\ UNCHANGED pc

\* A new process constructs a fresh StateManager (empty set).
HarnessRestart ==
  /\ pc = "harness" /\ spc = "dead"
  /\ spc' = "idle"
  /\ UNCHANGED <<processed_ids, fsVars, ids_to_save, ret, lock, pc, passVars,
                 loopVars, runHist, postHist, committed, last>>

NextStore ==
  \/ HarnessLoad
  \/ HarnessMark
  \/ HarnessSave
  \/ SaveMkdir
  \/ SaveOpen
  \/ SaveWrite
  \/ SaveReplace
  \/ SaveExcept
  \/ HarnessCrash
  \/ HarnessRestart

SpecStore == InitStore /\ [][NextStore]_vars

\* ------------------------------------------------------ Iteration Engine
\* The timeline: the tweet with id 9 has whitespace-only text, the others
\* have text.
TweetText(tid) == IF tid = 9 THEN " " ELSE "hi"

\* str.strip() on the texts above
Strip(t) == IF t = " " THEN "" ELSE t

\* The account the bot is logged in as: main_loop fetches and verifies it
\* before the Bot is constructed; the Bot's own_user_id stays None.
OwnUser == "bot"

\* tweet.user of the timeline's tweets: tweet 11 is the bot's own.
Author(tid) == IF tid = 11 THEN OwnUser ELSE "other"

\* tweet.in_reply_to_user_id_str: tweet 12 is a reply to the bot.
InReplyToUser(tid) == IF tid = 12 THEN OwnUser ELSE "none"

\* tweet.media, as image references: tweet 9 carries one image.
Media(tid) == IF tid = 9 THEN {"img9"} ELSE {}

\* tweet.retweeted_status: tweet 10 is a native retweet of a tweet with
\* another text and an image.
RetweetedStatus(tid) ==
  IF tid = 10 THEN [present |-> TRUE, text |-> "orig", media |-> {"img"}]
              ELSE [present |-> FALSE, text |-> "", media |-> {}]

\* tweet.quoted_status: none of the timeline's tweets is a quote tweet.
QuotedStatus(tid) == [present |-> FALSE, text |-> "", media |-> {}]

\* The tweet object of a timeline tweet, with the attributes the context
\* extraction reads (media: the photo urls get_media_urls keeps).
TweetObj(tid) ==
  [text |-> TweetText(tid), media |-> Media(tid),
   retweeted_status |-> RetweetedStatus(tid),
   quoted_status |-> QuotedStatus(tid)]

\* Variant of TextForGemini that looks at the quote before the retweet.
TextForGeminiQuoteFirst(tw) ==
  IF tw.quoted_status.present
  THEN "Commenter's Text: " \o tw.text \o "\nOriginal Quoted Text: "
         \o tw.quoted_status.text
  ELSE IF tw.retweeted_status.present THEN tw.retweeted_status.text
  ELSE tw.text

\* The context extraction of explain_tweet.py, text: a native retweet gives
\* the original's text; else a quote tweet gives the two labelled texts;
\* else the tweet's own text.
TextForGemini(tw) ==
  IF tw.retweeted_status.present THEN tw.retweeted_status.text
  ELSE IF tw.quoted_status.present
  THEN "Commenter's Text: " \o tw.text \o "\nOriginal Quoted Text: "
         \o tw.quoted_status.text
  ELSE tw.text

\* The context extraction, images: the tweet's own photos; when it has
\* none, those of the retweeted original, else of the quoted tweet.
ImageUrlsForGemini(tw) ==
  IF tw.media # {} THEN tw.media
  ELSE IF tw.retweeted_status.present THEN tw.retweeted_status.media
  ELSE IF tw.quoted_status.present THEN tw.quoted_status.media
  ELSE {}

\* The context extraction applied to a tweet of the timeline
text_for_gemini(tid) == TextForGemini(TweetObj(tid))

image_urls_for_gemini(tid) == ImageUrlsForGemini(TweetObj(tid))

\* What get_latest_timeline may deliver: up to MaxBatch tweets, newest first;
\* the same tweet may appear twice.
Batches == UNION {[1..k -> Ids] : k \in 0..MaxBatch}

\* A timeline item that is not a Tweet object with an id and a text
NotATweet == 0

\* Variant of IsTweet that takes every timeline item for a tweet.
IsTweetAlways(item) == TRUE

\* isinstance(tweet, Tweet) and hasattr(tweet, 'id') and hasattr(tweet, 'text')
IsTweet(item) == item # NotATweet

\* The deliveries of SpecItems: tweets and other items, mixed
MixedBatches == UNION {[1..k -> Ids \cup {NotATweet}] : k \in 0..MaxBatch}

\* The deliveries of SpecPace: up to PaceBatch tweets that have text
PacedBatches == UNION {[1..k -> PaceIds] : k \in 0..PaceBatch}

\* Variant of Cur that walks the batch in delivery order.
CurInDeliveryOrder == tweets[i + 1]

\* for i, tweet in enumerate(reversed(tweets)): the tweet at index i
Cur == tweets[Len(tweets) - i]

\* The outcomes of `await tweet.reply(reply_text)`
PostOutcomes == {"ok", "NotFound", "Forbidden", "TwitterException", "Exception"}

\* What hist remembers of a post outcome for an id whose entry was `prev`:
\* "ok", "gave_up" (not found or forbidden), "retry" (a generic API error or
\* an unexpected error), "retry_again" (such an error on a retry).
Retry == {"retry", "retry_again"}

HistOf(prev, outcome) ==
  CASE outcome = "ok" -> "ok"
    [] outcome \in {"NotFound", "Forbidden"} -> "gave_up"
    [] OTHER -> IF prev \in Retry THEN "retry_again" ELSE "retry"

\* Variants of MarksProcessed: no mark after a successful post; no mark after
\* not-found or forbidden; a mark after every outcome.
MarksProcessedNotReplied(outcome) == outcome \in {"NotFound", "Forbidden"}

MarksProcessedOnlyReplied(outcome) == outcome = "ok"

MarksProcessedAlways(outcome) == outcome \in PostOutcomes

\* The post outcomes after which the tweet is marked processed: success, and
\* the NotFound and Forbidden handlers; the TwitterException and Exception
\* handlers only count the error.
MarksProcessed(outcome) == outcome \in {"ok", "NotFound", "Forbidden"}

\* Variant of SetsStateChanged that sets the flag only after a reply.
SetsStateChangedOnlyReplied(outcome) == outcome = "ok"

\* The post outcomes after which state_changed is set to True
SetsStateChanged(outcome) == outcome \in {"ok", "NotFound", "Forbidden"}

\* Variant of IsLastTweetInBatch that never recognises the last tweet.
IsLastTweetInBatchOffByOne == i = Len(tweets)

\* is_last_tweet_in_batch = (i == len(tweets) - 1)
IsLastTweetInBatch == i = Len(tweets) - 1

\* The for loop moves to the next tweet, or ends.
Advance ==
  /\ i' = i + 1
  /\ pc' = IF i + 1 < Len(tweets) THEN "item" ELSE "flush"

Event(ev, tid) == [ev |-> ev, id |-> tid]

\* The end of a generate_reply call and what the call met
GenEvent(ev, tid, cond) == [ev |-> ev, id |-> tid, cause |-> cond]

\* self.gemini_client.generate_reply(tweet_text): the call and its arguments
\* (image_urls keeps its default, None)
GenerateReply(tid) ==
  [ev |-> "gen_call", id |-> tid, tweet_text |-> TweetText(tid), image_urls |-> {}]

\* Variant of MarksProcessedNoReply that leaves the tweet unmarked.
MarksProcessedNoReplyNever == FALSE

\* `if not reply_text:` ends with mark_processed(tweet_id)
MarksProcessedNoReply == TRUE

\* The failures of the generation service that generate_reply meets: no
\* model, no speaking style while its file exists, a deadline exceeded, an
\* API error, a network error.
TransientFailures ==
  {"no_model", "no_style", "DeadlineExceeded", "GoogleAPIError", "ClientError"}

\* What a call of generate_reply meets: the failures above, a response with
\* text ("text") or without ("no_text"), or a stat of the style file that
\* fails ("stat_fails").
GenConditions == TransientFailures \cup {"text", "no_text", "stat_fails"}

\* Variant of GenerateReplyReturns that lets a deadline exceeded escape.
GenerateReplyRaisesOnDeadline(cond) ==
  CASE cond = "text" -> "reply"
    [] cond \in {"stat_fails", "DeadlineExceeded"} -> "raise"
    [] OTHER -> ""

\* generate_reply: text, nothing (None), or an exception. Every handler of
\* its try blocks returns None; speaking_style_path.exists() is called
\* outside them.
GenerateReplyReturns(cond) ==
  CASE cond = "text" -> "reply"
    [] cond = "stat_fails" -> "raise"
    [] OTHER -> ""

\* What generate_reply may do: return text, return nothing, or raise.
GenResults == {GenerateReplyReturns(cond) : cond \in GenConditions}

\* The failures of the fetch: exceptions of get_latest_timeline, and a result
\* that is neither an iterable nor an async iterable ("bad_shape").
FetchFailures == {"TwitterException", "Exception", "AttributeError", "TypeError", "bad_shape"}

\* Variant of FetchEnds that re-raises every exception of the fetch.
FetchEndsAlwaysRaises(failure) == IF failure = "bad_shape" THEN "return" ELSE "raise"

\* How run_iteration ends on a failure of the fetch: the AttributeError and
\* TypeError handlers re-raise; the TwitterException and Exception handlers
\* return; a result of unexpected shape is taken as an empty list, and the
\* pass returns as for an empty timeline.
FetchEnds(failure) ==
  IF failure \in {"AttributeError", "TypeError"} THEN "raise" ELSE "return"

\* main_loop: StateManager(path) and load(); a load that raises is fatal.
Boot ==
  /\ pc = "boot" /\ spc = "idle"
  /\ \E renameOk \in (IF LoadRenames THEN BOOLEAN ELSE {TRUE}) : Load(renameOk)
  /\ pc' = IF BackupReason(file) = "propagate" THEN "exited" ELSE "fetch"
  /\ last' = Event("boot", 0)
  /\ UNCHANGED <<tmp, spc, ids_to_save, lock, passVars, loopVars, runHist, postHist, committed>>

\* Variant of EndPass that goes to the interval sleep without looking at
\* shutdown_requested.
EndPassIgnoresSignal ==
  /\ pc' = "interval"
  /\ main_task' = TRUE
  /\ UNCHANGED <<shutdown_requested, closed, final_saves>>

\* run_iteration has returned to main_loop, or its exception was logged
\* there: main_task is set when the main loop is entered, and the loop
\* sleeps for the interval unless shutdown was requested.
EndPass ==
  /\ pc' = IF shutdown_requested THEN "leave" ELSE "interval"
  /\ main_task' = TRUE
  /\ UNCHANGED <<shutdown_requested, closed, final_saves>>

\* run_iteration starts; the fetch returns a list of tweets. An empty list
\* ends the pass at once.
Fetch(batches) ==
  /\ pc = "fetch"
  /\ \E batch \in batches :
       /\ tweets' = batch
       /\ IF batch = <<>> THEN EndPass
                          ELSE pc' = "item" /\ UNCHANGED loopVars
  /\ i' = 0
  /\ processed_count' = 0 /\ reply_count' = 0 /\ error_count' = 0
  /\ state_changed' = FALSE
  /\ pauses' = 0 /\ marked' = FALSE
  /\ last' = Event("fetched", 0)
  /\ UNCHANGED <<processed_ids, fsVars, callVars, evicted, evictedEver, postHist,
                 committed>>

FetchBatch == Fetch(Batches)

FetchPaced == Fetch(PacedBatches)

FetchMixed == Fetch(MixedBatches)

\* The fetch fails: run_iteration raises to main_loop or returns.
FetchFails ==
  /\ pc = "fetch"
  /\ \E failure \in FetchFailures :
       /\ last' = Event(failure, 0)
       /\ IF FetchEnds(failure) = "raise"
          THEN pc' = "caught" /\ UNCHANGED loopVars
          ELSE EndPass
  /\ UNCHANGED <<processed_ids, fsVars, callVars, passVars, runHist, postHist, committed>>

\* main_loop's `except Exception` around run_iteration: the error is logged
\* and the loop goes on.
LoopCatches ==
  /\ pc = "caught"
  /\ EndPass
  /\ last' = Event("iteration_failed", 0)
  /\ tweets' = <<>> /\ i' = 0
  /\ processed_count' = 0 /\ reply_count' = 0 /\ error_count' = 0
  /\ state_changed' = FALSE
  /\ pauses' = 0 /\ marked' = FALSE
  /\ UNCHANGED <<processed_ids, fsVars, callVars, evicted, evictedEver, postHist,
                 committed>>

\* One tweet of the batch, up to the first suspension: the validity check,
\* the already-processed check, the empty-text skip, or the call of
\* generate_reply.
Item ==
  /\ pc = "item"
  /\ IF ~IsTweet(Cur)
     THEN /\ Advance
          /\ last' = Event("skip_invalid", 0)
          /\ calls' = NoCalls
          /\ UNCHANGED <<processed_ids, processed_count, state_changed, runHist>>
     ELSE IF IsProcessed(processed_ids, Cur)
     THEN /\ Advance
          /\ last' = Event("skip_processed", Cur)
          /\ calls' = NoCalls
          /\ UNCHANGED <<processed_ids, processed_count, state_changed, runHist>>
     ELSE /\ processed_count' = processed_count + 1
          /\ IF Strip(TweetText(Cur)) = ""
             THEN /\ MarkProcessed(Cur)
                  /\ calls' = [NoCalls EXCEPT !.marks = 1]
                  /\ state_changed' = TRUE
                  /\ Advance
                  /\ last' = Event("skip_empty", Cur)
             ELSE /\ pc' = "gen" /\ i' = i
                  /\ last' = GenerateReply(Cur)
                  /\ calls' = NoCalls
                  /\ UNCHANGED <<processed_ids, state_changed, runHist>>
  /\ UNCHANGED <<fsVars, callVars, tweets, reply_count, error_count, pauses,
                 loopVars, hist, okEver, committed>>

\* generate_reply returns text or nothing, or raises: the call is outside
\* run_iteration's try block, so its exception leaves the pass.
Gen ==
  /\ pc = "gen"
  /\ \E cond \in GenConditions :
       LET result == GenerateReplyReturns(cond) IN
       CASE result = "" ->
              /\ error_count' = error_count + 1
              /\ IF MarksProcessedNoReply
                 THEN /\ MarkProcessed(Cur)
                      /\ calls' = [calls EXCEPT !.marks = @ + 1]
                 ELSE UNCHANGED <<processed_ids, runHist, calls>>
              /\ state_changed' = TRUE
              /\ Advance
              /\ last' = GenEvent("gen_empty", Cur, cond)
              /\ hist' = [hist EXCEPT ![Cur] = "no_reply"]
         [] result = "raise" ->
              /\ pc' = "caught" /\ i' = i
              /\ last' = GenEvent("gen_raised", Cur, cond)
              /\ UNCHANGED <<processed_ids, error_count, state_changed, runHist, hist,
                             calls>>
         [] OTHER ->
              /\ pc' = "post" /\ i' = i
              /\ last' = GenEvent("post_call", Cur, cond)
              /\ calls' = [calls EXCEPT !.posts = @ + 1]
              /\ UNCHANGED <<processed_ids, error_count, state_changed, runHist, hist>>
  /\ UNCHANGED <<fsVars, callVars, tweets, processed_count, reply_count, pauses,
                 loopVars, okEver, committed>>

\* tweet.reply returns or raises.
Post ==
  /\ pc = "post"
  /\ \E outcome \in PostOutcomes :
       /\ hist' = [hist EXCEPT ![Cur] = HistOf(hist[Cur], outcome)]
       /\ last' = Event(outcome, Cur)
       /\ IF MarksProcessed(outcome)
          THEN /\ MarkProcessed(Cur)
               /\ calls' = [calls EXCEPT !.marks = @ + 1]
          ELSE UNCHANGED <<processed_ids, runHist, calls>>
       /\ state_changed' = (state_changed \/ SetsStateChanged(outcome))
       /\ IF outcome = "ok"
          THEN /\ reply_count' = reply_count + 1
               /\ okEver' = okEver \cup {Cur}
               /\ IF IsLastTweetInBatch
                  THEN Advance /\ UNCHANGED pauses
                  ELSE pc' = "pace" /\ i' = i /\ pauses' = pauses + 1
               /\ UNCHANGED error_count
          ELSE /\ error_count' = error_count + 1
               /\ Advance
               /\ UNCHANGED <<reply_count, okEver, pauses>>
  /\ UNCHANGED <<fsVars, callVars, tweets, processed_count, loopVars, committed>>

\* await asyncio.sleep(delay) between two posts ends.
Pace ==
  /\ pc = "pace"
  /\ Advance
  /\ last' = Event("paced", Cur)
  /\ UNCHANGED <<processed_ids, fsVars, callVars, tweets, processed_count,
                 reply_count, error_count, state_changed, pauses, loopVars,
                 runHist, postHist, committed>>

\* if state_changed: await self.state_manager.save()
Flush ==
  /\ pc = "flush" /\ spc = "idle"
  /\ pc' = "summary"
  /\ IF state_changed
     THEN SaveCall /\ last' = Event("save_call", 0)
     ELSE UNCHANGED callVars /\ last' = Event("no_save", 0)
  /\ tweets' = <<>> /\ i' = 0
  /\ calls' = NoCalls
  /\ UNCHANGED <<processed_ids, fsVars, processed_count, reply_count,
                 error_count, state_changed, pauses, loopVars, runHist, hist,
                 okEver, committed>>

\* Variant of SummaryLine that reports the two tallies in each other's place.
SummaryLineSwapped ==
  [ev |-> "summary", id |-> 0, checked |-> processed_count,
   replied |-> error_count, errors |-> reply_count]

\* "Iteration completed ... Checked: {processed_count}, Replied:
\* {reply_count}, Errors: {error_count}."
SummaryLine ==
  [ev |-> "summary", id |-> 0, checked |-> processed_count,
   replied |-> reply_count, errors |-> error_count]

\* The summary line is logged and run_iteration returns.
Summary ==
  /\ pc = "summary" /\ spc = "idle"
  /\ EndPass
  /\ last' = SummaryLine
  /\ tweets' = <<>> /\ i' = 0
  /\ processed_count' = 0 /\ reply_count' = 0 /\ error_count' = 0
  /\ state_changed' = FALSE
  /\ pauses' = 0 /\ marked' = FALSE
  /\ UNCHANGED <<processed_ids, fsVars, callVars, evicted, evictedEver, postHist,
                 committed>>

\* await asyncio.sleep(fetch_interval_seconds) ends: the next pass
Interval ==
  /\ pc = "interval" /\ ~shutdown_requested
  /\ pc' = "fetch"
  /\ last' = Event("interval", 0)
  /\ UNCHANGED <<processed_ids, fsVars, callVars, passVars, loopVars, runHist,
                 postHist, committed>>

\* The task is suspended in an await: the fetch, generate_reply, tweet.reply,
\* a pacing sleep, the interval sleep, or the file I/O of the end-of-pass save.
AtAwait ==
  \/ pc \in {"fetch", "gen", "post", "pace", "interval"}
  \/ pc = "summary" /\ spc \in {"save_open", "save_write"}

\* signal_handler during the initial run: main_task is still None, so the
\* handler only sets shutdown_requested and the task is not cancelled.
SignalInitial ==
  /\ ~main_task /\ ~shutdown_requested /\ AtAwait
  /\ shutdown_requested' = TRUE
  /\ UNCHANGED <<processed_ids, fsVars, callVars, pc, passVars, main_task, closed,
                 final_saves, runHist, postHist, committed, last>>

\* signal_handler in the main loop: shutdown_requested is set and main_task
\* is cancelled. CancelledError is raised in the await the task is suspended
\* in; no handler of run_iteration or of save catches it, and main_loop
\* breaks out of its loop. A reply in flight may or may not have reached the
\* server; a write in flight may leave a truncated temp file. `marked`
\* stays set when the pass is cut short before its end-of-pass save: its
\* marks are in memory only.
Cancel ==
  /\ main_task /\ ~shutdown_requested /\ AtAwait
  /\ shutdown_requested' = TRUE
  /\ pc' = "leave"
  /\ last' = Event("cancelled", 0)
  /\ \/ UNCHANGED <<file, tmp>>
     \/ spc = "save_write" /\ WritePath(SaveTarget, Content("partial"))
  /\ spc' = "idle"
  /\ ids_to_save' = <<>>
  /\ ret' = IF spc = "idle" THEN ret ELSE "save_cancelled"
  /\ lock' = (lock /\ ~ReleasesLock(ret'))
  /\ \/ UNCHANGED okEver
     \/ pc = "post" /\ okEver' = okEver \cup {Cur}
  /\ tweets' = <<>> /\ i' = 0
  /\ processed_count' = 0 /\ reply_count' = 0 /\ error_count' = 0
  /\ state_changed' = FALSE
  /\ pauses' = 0
  /\ marked' = (marked /\ pc # "summary")
  /\ calls' = NoCalls
  /\ UNCHANGED <<processed_ids, baks, main_task, closed, final_saves, evicted,
                 evictedEver, hist, committed>>

\* main_loop's finally block: the final save is called.
FinalSave ==
  /\ pc = "leave" /\ spc = "idle"
  /\ SaveCall
  /\ pc' = "final_saving"
  /\ final_saves' = final_saves + 1
  /\ last' = Event("final_save", 0)
  /\ UNCHANGED <<processed_ids, fsVars, passVars, main_task, shutdown_requested,
                 closed, runHist, postHist, committed>>

\* Variant of ClosesClient that closes the client only after a save that
\* succeeded.
ClosesClientOnlySaved(r) == r = "save_ok"

\* Whether main_loop goes on to close the client after a final save that
\* ended as r: save returned, or it raised and `except Exception` logged it.
ClosesClient(r) == r \in {"save_ok", "save_failed", "save_raised"}

\* main_loop's finally block after the final save: the client is closed and
\* main_loop returns.
CloseClient ==
  /\ pc = "final_saving" /\ spc = "idle"
  /\ IF ClosesClient(ret)
     THEN closed' = TRUE /\ pc' = "stopped"
     ELSE closed' = closed /\ pc' = "exited"
  /\ last' = Event("close", 0)
  /\ UNCHANGED <<processed_ids, fsVars, callVars, passVars, main_task,
                 shutdown_requested, final_saves, runHist, postHist, committed>>

\* The process is killed, at any point.
Kill ==
  /\ pc \notin {"dead", "harness", "exited", "stopped"}
  /\ Die
  /\ pc' = "dead"

\* The service is started again on the same state file.
Restart ==
  /\ pc = "dead"
  /\ pc' = "boot"
  /\ spc' = "idle"
  /\ UNCHANGED <<processed_ids, fsVars, ids_to_save, ret, lock, passVars, loopVars,
                 runHist, postHist, committed, last>>

Init ==
  /\ InitCommon
  /\ pc = "boot"
  /\ file \in {Absent, Content("garbage"), JsonDump(<<Digits(10)>>)}
  /\ baks = {}

\* One run of the process.
Next ==
  \/ Boot
  \/ FetchBatch
  \/ FetchFails
  \/ LoopCatches
  \/ Item
  \/ Gen
  \/ Post
  \/ Pace
  \/ Flush
  \/ SaveMkdir
  \/ SaveOpen
  \/ SaveWrite
  \/ SaveReplace
  \/ SaveExcept
  \/ Summary
  \/ Interval

Spec == Init /\ [][Next]_vars

\* Runs of the process on one state file: a run may be killed at any point
\* and the service started again.
NextCrash ==
  \/ Boot
  \/ FetchBatch
  \/ FetchFails
  \/ LoopCatches
  \/ Item
  \/ Gen
  \/ Post
  \/ Pace
  \/ Flush
  \/ SaveMkdir
  \/ SaveOpen
  \/ SaveWrite
  \/ SaveReplace
  \/ SaveExcept
  \/ Summary
  \/ Interval
  \/ Kill
  \/ Restart

SpecCrash == Init /\ [][NextCrash]_vars

\* One run of the process with shutdown signals.
NextLoop ==
  \/ Boot
  \/ FetchBatch
  \/ FetchFails
  \/ LoopCatches
  \/ Item
  \/ Gen
  \/ Post
  \/ Pace
  \/ Flush
  \/ SaveMkdir
  \/ SaveOpen
  \/ SaveWrite
  \/ SaveReplace
  \/ SaveExcept
  \/ Summary
  \/ Interval
  \/ SignalInitial
  \/ Cancel
  \/ FinalSave
  \/ CloseClient

SpecLoop == Init /\ [][NextLoop]_vars

\* The first pass of a process that found no state file, over a timeline
\* of tweets with text.
InitPace ==
  /\ InitCommon
  /\ pc = "boot"
  /\ file = Absent
  /\ baks = {}

NextPace ==
  \/ Boot
  \/ FetchPaced
  \/ LoopCatches
  \/ Item
  \/ Gen
  \/ Post
  \/ Pace
  \/ Flush
  \/ SaveMkdir
  \/ SaveOpen
  \/ SaveWrite
  \/ SaveReplace
  \/ SaveExcept
  \/ Summary

SpecPace == InitPace /\ [][NextPace]_vars

\* The tweet every fetch of SpecLive returns
Wanted == 10

\* The deliveries of SpecLive: each holds the wanted tweet
LiveBatches == {b \in PacedBatches : Wanted \in Range(b)}

FetchLive == Fetch(LiveBatches)

\* generate_reply returns text for the wanted tweet
GenLive ==
  /\ Gen
  /\ Cur = Wanted => last'.ev = "post_call"

\* tweet.reply for the wanted tweet succeeds, or fails with a generic API
\* error or an unexpected error, and fails so at most twice
PostLive ==
  /\ Post
  /\ Cur = Wanted =>
       \/ last'.ev = "ok"
       \/ last'.ev \in {"TwitterException", "Exception"} /\ hist[Wanted] # "retry_again"

\* The passes of one process that runs on: no signal, no kill, a timeline
\* that always delivers; every await returns in the end.
NextLive ==
  \/ Boot
  \/ FetchLive
  \/ LoopCatches
  \/ Item
  \/ GenLive
  \/ PostLive
  \/ Pace
  \/ Flush
  \/ SaveMkdir
  \/ SaveOpen
  \/ SaveWrite
  \/ SaveReplace
  \/ SaveExcept
  \/ Summary
  \/ Interval

SpecLive == InitPace /\ [][NextLive]_vars /\ WF_vars(NextLive)

\* ------------------------------------------ bot.py: the NotFound fallback
\* What tweet.reply returns or raises in a build without the NotFound class
FallbackOutcomes == PostOutcomes \ {"NotFound"}

\* `except NotFound if NotFound else Exception as e:` with NotFound = None is
\* `except Exception`: it takes every exception of the try block, the test
\* `NotFound and isinstance(e, NotFound)` fails and `raise e` leaves the try
\* statement, past the Forbidden, TwitterException and Exception clauses.
FirstClauseReraised(outcome) == outcome # "ok"

\* tweet.reply returns or raises, NotFound being None.
PostFallback ==
  /\ pc = "post"
  /\ \E outcome \in FallbackOutcomes :
       /\ hist' = [hist EXCEPT ![Cur] = HistOf(hist[Cur], outcome)]
       /\ last' = Event(outcome, Cur)
       /\ IF FirstClauseReraised(outcome)
          THEN /\ pc' = "caught" /\ i' = i
               /\ UNCHANGED <<processed_ids, runHist, calls, state_changed,
                              reply_count, error_count, okEver, pauses>>
          ELSE /\ reply_count' = reply_count + 1
               /\ okEver' = okEver \cup {Cur}
               /\ state_changed' = TRUE
               /\ MarkProcessed(Cur)
               /\ calls' = [calls EXCEPT !.marks = @ + 1]
               /\ IF IsLastTweetInBatch
                  THEN Advance /\ UNCHANGED pauses
                  ELSE pc' = "pace" /\ i' = i /\ pauses' = pauses + 1
               /\ UNCHANGED error_count
  /\ UNCHANGED <<fsVars, callVars, tweets, processed_count, loopVars, committed>>

\* One run of the process in the build without NotFound
NextFallback ==
  \/ Boot
  \/ FetchBatch
  \/ FetchFails
  \/ LoopCatches
  \/ Item
  \/ Gen
  \/ PostFallback
  \/ Pace
  \/ Flush
  \/ SaveMkdir
  \/ SaveOpen
  \/ SaveWrite
  \/ SaveReplace
  \/ SaveExcept
  \/ Summary
  \/ Interval

SpecFallback == Init /\ [][NextFallback]_vars

\* ------------------------------------------- bot.py: items of every kind
\* One run of the process over a timeline that also delivers items that are
\* not tweets
NextItems ==
  \/ Boot
  \/ FetchMixed
  \/ FetchFails
  \/ LoopCatches
  \/ Item
  \/ Gen
  \/ Post
  \/ Pace
  \/ Flush
  \/ SaveMkdir
  \/ SaveOpen
  \/ SaveWrite
  \/ SaveReplace
  \/ SaveExcept
  \/ Summary
  \/ Interval

SpecItems == Init /\ [][NextItems]_vars

\* ------------------------------------------------- explain_tweet.py: main
\* The embedded tweets a fetched tweet may carry
NoStatus == [present |-> FALSE, text |-> "", media |-> {}]

RetweetedStatuses ==
  {NoStatus} \cup [present : {TRUE}, text : {"", "hello"}, media : {{}, {"orig.jpg"}}]

QuotedStatuses ==
  {NoStatus} \cup [present : {TRUE}, text : {"", "gm too"}, media : {{}, {"quoted.jpg"}}]

\* The tweets get_tweet_by_id may return
TweetObjs ==
  [text : {"", " ", "gm"}, media : {{}, {"own.jpg"}},
   retweeted_status : RetweetedStatuses, quoted_status : QuotedStatuses]

InitExplain ==
  /\ InitCommon
  /\ pc = "explain_fetch"
  /\ file = Absent
  /\ baks = {}

\* tweet_obj = await twikit_cli.get_tweet_by_id(...): a tweet, or the script
\* returns (no tweet, NotFound, Forbidden, TwitterException, Exception)
ExplainFetch ==
  /\ pc = "explain_fetch"
  /\ \/ \E tw \in TweetObjs : tweets' = <<tw>> /\ pc' = "explain_extract"
     \/ tweets' = <<>> /\ pc' = "explain_returned"
  /\ UNCHANGED <<processed_ids, fsVars, callVars, i, processed_count, reply_count,
                 error_count, state_changed, pauses, loopVars, runHist, postHist,
                 committed, last>>

\* The context extraction, then the skip of a tweet without text and
\* images, or the call of generate_explanation(text, image_urls)
ExplainExtract ==
  /\ pc = "explain_extract"
  /\ LET text == TextForGemini(tweets[1])
         urls == ImageUrlsForGemini(tweets[1])
         skip == Strip(text) = "" /\ urls = {}
     IN  /\ last' = [ev |-> IF skip THEN "skip_explanation" ELSE "generate_explanation",
                     id |-> 0, tweet_text |-> text, image_urls |-> urls]
         /\ pc' = IF skip THEN "explain_returned" ELSE "explained"
  /\ UNCHANGED <<processed_ids, fsVars, callVars, passVars, loopVars, runHist,
                 postHist, committed>>

NextExplain ==
  \/ ExplainFetch
  \/ ExplainExtract

SpecExplain == InitExplain /\ [][NextExplain]_vars

\* ------------------------------------------------------------- properties
\* Steps, as the properties below name them.
GenCallStep  == pc = "item" /\ pc' = "gen"
PostCallStep == pc = "gen" /\ pc' = "post"
PostReturns(outcomes) == pc = "post" /\ pc' # "dead" /\ last'.ev \in outcomes
LoadStep == spc = "idle" /\ ret' \in {"load_ok", "load_raised"}
Saving == spc \in {"save_mkdir", "save_open", "save_write", "save_replace", "save_except"}
Malformed == {"garbage", "nonlist"}
DispatchEnds == pc \in {"item", "gen", "post"} /\ (i' = i + 1 \/ pc' = "pace")
ReturnsNormally == pc \in {"fetch", "summary"} /\ pc' \in {"interval", "leave"}
MarkStep == pc = "harness" /\ spc = "idle" /\ spc' = "idle" /\ ret' = "mark"

\* C1: within one process run without eviction, once a post for an id has
\* succeeded, the posting collaborator is never invoked for that id again,
\* neither for a duplicate in the same batch nor in a later pass.
C1_NoPostAfterReply ==
  [][PostCallStep => (hist[Cur] # "ok" \/ evicted)]_vars

\* C1 witness: an id that was replied to in this run, with no eviction, has
\* been dispatched again and skipped as already processed.
C1_Witness ==
  /\ ~evicted
  /\ last.ev = "skip_processed"
  /\ hist[last.id] = "ok"

\* C2: absent eviction, an id that received a successful reply never
\* receives a second one, also across a kill of the process at any point and
\* a restart from the state file.
C2_NeverDoubleReplies ==
  [][PostReturns({"ok"}) => (Cur \notin okEver \/ evictedEver)]_vars

\* C3: dispatching an item whose id is already in the processed set calls
\* neither the reply generator nor the posting collaborator (the loop moves
\* on to the next item), and leaves the processed set and the three counters
\* as they were.
C3_ProcessedIsSkipped ==
  [][(pc = "item" /\ Digits(Cur) \in processed_ids) =>
        /\ pc' \in {"item", "flush"}
        /\ i' = i + 1
        /\ processed_ids' = processed_ids
        /\ processed_count' = processed_count
        /\ reply_count' = reply_count
        /\ error_count' = error_count]_vars

\* C3 witness: in a pass that has already counted an item, an item whose id
\* is in the processed set was dispatched and skipped.
C3_Witness ==
  /\ last.ev = "skip_processed"
  /\ Digits(last.id) \in processed_ids
  /\ processed_count > 0

\* C4: the processed set never holds more than max_memory_size ids: after
\* construction, after load of any file, after any mark_processed calls.
C4_BoundedMemory == Cardinality(processed_ids) <= MaxMemorySize

\* C4 witness: a mark_processed call on a full set has evicted a member and
\* the set is full again.
C4_Witness ==
  /\ ret = "mark"
  /\ evicted
  /\ Cardinality(processed_ids) = MaxMemorySize

\* C5: load after a successful save yields the set that was saved (on the
\* same store or on a fresh one after a restart).
C5_RoundTrip ==
  (ret = "load_ok" /\ committed.valid) => processed_ids = committed.ids

\* C5 witness: a load has returned a saved set of max_memory_size ids.
C5_Witness ==
  /\ ret = "load_ok"
  /\ committed.valid
  /\ processed_ids = committed.ids
  /\ Cardinality(processed_ids) = MaxMemorySize

\* C6: while save runs, whatever fails and wherever the process dies, every
\* step leaves the state file as it was or, at the rename, replaces it by
\* the complete new list.
C6_AtomicSave ==
  [][Saving => \/ file' = file
               \/ spc = "save_replace" /\ file' = JsonDump(ids_to_save)]_vars

\* C6 witness: the process died in the middle of the write of a save; the
\* temp file is truncated and the state file still holds the last saved list.
C6_Witness ==
  /\ spc = "dead"
  /\ tmp.kind = "partial"
  /\ committed.valid
  /\ file = JsonDump(SortedSeq(committed.ids))

\* C7: load of a state file that holds invalid JSON or a JSON value that is
\* no list returns normally with an empty set and renames the file aside to
\* a new backup that keeps its content; and no step ever removes a backup.
C7_MalformedRenamedAside ==
  [][/\ (LoadStep /\ file.kind \in Malformed) =>
           /\ ret' = "load_ok"
           /\ processed_ids' = {}
           /\ file' = Absent
           /\ \E b \in baks' \ baks : b.content = file
     /\ baks \subseteq baks']_vars

\* C8: load never raises: whatever the state file (absent, blank, a list,
\* malformed, unreadable) it returns normally; the set it leaves is empty
\* unless the file holds a list, and then it holds ids of the list, at most
\* max_memory_size of them.
C8_LoadNeverRaises ==
  [][LoadStep =>
        /\ ret' = "load_ok"
        /\ file.kind # "list" => processed_ids' = {}
        /\ file.kind = "list" =>
              /\ processed_ids' \subseteq ValidIds(file.items)
              /\ Cardinality(processed_ids') <= MaxMemorySize]_vars

\* C9 as stated: after a post that fails with a generic API error or an
\* unexpected error the item is not marked (is_processed stays false), the
\* error count grows by one, and the next dispatch of the item makes a new
\* generation call and a new post attempt, however often it failed before.
C9_RetryAlwaysPosts ==
  [][/\ PostReturns({"TwitterException", "Exception"}) =>
           /\ processed_ids' = processed_ids
           /\ error_count' = error_count + 1
     /\ \A x \in Ids : hist'[x] \in Retry => Digits(x) \notin processed_ids'
     /\ (pc = "item" /\ hist[Cur] \in Retry) => GenCallStep
     /\ (pc = "gen" /\ hist[Cur] \in Retry) => PostCallStep]_vars

\* C9 amended: as above, but the new post attempt is made only when the new
\* generation call returns text; an empty generation marks the item
\* processed instead (and a generation call that raises ends the pass with
\* the item still unmarked).
C9_RetryUnlessGenEmpty ==
  [][/\ PostReturns({"TwitterException", "Exception"}) =>
           /\ processed_ids' = processed_ids
           /\ error_count' = error_count + 1
     /\ \A x \in Ids : hist'[x] \in Retry => Digits(x) \notin processed_ids'
     /\ (pc = "item" /\ hist[Cur] \in Retry) => GenCallStep
     /\ (pc = "gen" /\ hist[Cur] \in Retry) =>
           \/ PostCallStep
           \/ last'.ev = "gen_empty" /\ Digits(Cur) \in processed_ids'
           \/ last'.ev = "gen_raised" /\ Digits(Cur) \notin processed_ids']_vars

\* C9 witness: a third post attempt is in flight for an item whose post has
\* failed with such an error twice in a row.
C9_Witness ==
  /\ pc = "post"
  /\ hist[Cur] = "retry_again"
  /\ Digits(Cur) \notin processed_ids

\* C10: a post that fails with not-found or forbidden marks the item
\* processed and adds one to the error count, and, absent eviction, no later
\* generation call or post attempt is made for that id in this run.
C10_GaveUpIsFinal ==
  [][/\ PostReturns({"NotFound", "Forbidden"}) =>
           /\ Digits(Cur) \in processed_ids'
           /\ error_count' = error_count + 1
     /\ (GenCallStep \/ PostCallStep) => (hist[Cur] # "gave_up" \/ evicted)]_vars

\* C10 witness: an id given up on as not found or forbidden, with no
\* eviction, has been dispatched again and skipped as already processed.
C10_Witness ==
  /\ ~evicted
  /\ last.ev = "skip_processed"
  /\ hist[last.id] = "gave_up"

\* C11: an unexpected error at a step of an item's dispatch (the generation
\* call, the post) is caught inside the pass: it adds one to the error count
\* and the loop moves on to the next item of the batch.
C11_ErrorsStayInPass ==
  [][(pc \in {"gen", "post"} /\ last'.ev \in {"gen_raised", "Exception"}) =>
        /\ error_count' = error_count + 1
        /\ i' = i + 1
        /\ pc' \in {"item", "flush"}]_vars

\* C12: the items of a batch are dispatched in the reverse of the delivery
\* order, one at a time: every step of a dispatch (and of the pacing sleep
\* after it) concerns the item i places from the end of the batch, and the
\* index moves on by one only when that dispatch or sleep has finished.
C12_OldestFirst ==
  [][/\ pc \in {"item", "gen", "post", "pace"} =>
           /\ last'.id = tweets[Len(tweets) - i]
           /\ \/ i' = i /\ pc' \in {"gen", "post", "pace", "caught"}
              \/ i' = i + 1 /\ pc' \in {"item", "flush"}
     /\ (pc = "fetch" /\ pc' = "item") => i' = 0
     /\ (pc' = "flush" /\ pc # "flush") => i' = Len(tweets)]_vars

\* C12 witness: in a batch of PaceBatch different tweets, all but the newest
\* have had their post attempt and the newest, delivered first, is being
\* dispatched last.
C12_Witness ==
  /\ Len(tweets) = PaceBatch
  /\ Cardinality(Range(tweets)) = PaceBatch
  /\ i = PaceBatch - 1
  /\ pc = "gen"
  /\ last.id = tweets[1]
  /\ \A k \in 2..PaceBatch : hist[tweets[k]] \notin {"none", "no_reply"}

\* C13: a pacing sleep starts exactly after a successful post on an item
\* that is not the last of the batch (never after a skip, a failed post or
\* the last item), each such sleep is one suspension, and a batch whose
\* items were all replied to has one suspension less than items.
C13_PacingAfterReply ==
  [][/\ (pc' = "pace" /\ pc # "pace") <=>
           (PostReturns({"ok"}) /\ i # Len(tweets) - 1)
     /\ (pauses' = pauses + 1) <=> (pc' = "pace" /\ pc # "pace")
     /\ pauses' # pauses => (pauses' = pauses + 1 \/ pauses' = 0)
     /\ pc = "pace" => pc' # "pace"
     /\ (pc = "flush" /\ reply_count = Len(tweets)) => pauses = Len(tweets) - 1]_vars

\* C13 witness: the PaceBatch items of a batch were all replied to and the
\* pass has suspended PaceBatch - 1 times.
C13_Witness ==
  /\ pc = "flush"
  /\ Len(tweets) = PaceBatch
  /\ reply_count = PaceBatch
  /\ pauses = PaceBatch - 1

\* C14: a pass that reaches its end does so after the last item and calls
\* save there if and only if mark_processed was called during the pass; save
\* is called at no other point of a pass.
C14_SaveIffMarked ==
  [][/\ (pc = "flush" /\ pc' = "summary") => ((spc' = "save_mkdir") <=> marked)
     /\ (spc = "idle" /\ spc' = "save_mkdir") => (pc = "flush" /\ pc' = "summary")
     /\ (pc' = "flush" /\ pc # "flush") => i' = Len(tweets)]_vars

\* C14 witness: a pass without any reply, in which an item was marked, has
\* called save at its end, and the save succeeded.
C14_Witness ==
  /\ pc = "summary"
  /\ marked
  /\ reply_count = 0
  /\ ret = "save_ok"

\* C15: a contract violation of the fetch (no such method, a bad call
\* signature, a result of unexpected shape) makes run_iteration raise to
\* main_loop.
C15_ContractViolationRaises ==
  [][(pc = "fetch" /\ last'.ev \in {"AttributeError", "TypeError", "bad_shape"}) =>
        pc' = "caught"]_vars

\* C16: when the fetch raises an API error the pass returns without an item
\* dispatched, with the processed set as it was and without a save; after
\* the interval the next pass fetches again.
C16_FetchErrorEndsPass ==
  [][/\ (pc = "fetch" /\ last'.ev = "TwitterException") =>
           /\ pc' = "interval"
           /\ processed_ids' = processed_ids
           /\ spc' = "idle"
           /\ processed_count' = 0
           /\ ~marked'
     /\ (pc = "interval" /\ last.ev = "TwitterException" /\ pc' # pc) =>
           pc' = "fetch"]_vars

\* C16 witness: in a run that has marked tweets before, a fetch has failed
\* with an API error and the loop sleeps until the next pass.
C16_Witness ==
  /\ pc = "interval"
  /\ last.ev = "TwitterException"
  /\ processed_ids # {}
  /\ spc = "idle"

\* C17: when run_iteration raises the fatal error of the fetch to main_loop,
\* the loop is left for the final save: no further pass is scheduled.
C17_FatalStopsLoop ==
  [][(pc = "caught" /\ last.ev \in {"AttributeError", "TypeError"}) =>
        pc' = "leave"]_vars

\* C18: a reply in flight is left only by tweet.reply returning or raising,
\* also when a shutdown signal arrives meanwhile, and a reply that succeeded
\* is marked processed.
C18_ReplyNotAborted ==
  [][pc = "post" =>
        \/ pc' = "post"
        \/ /\ last'.ev \in PostOutcomes
           /\ last'.ev = "ok" => Digits(tweets[Len(tweets) - i]) \in processed_ids']_vars

\* C19: a shutdown signal that arrives during a pacing sleep or the interval
\* sleep ends that sleep at once: the loop is left for the final save.
C19_DelaysAbandoned ==
  [][(pc \in {"pace", "interval"} /\ ~shutdown_requested /\ shutdown_requested') =>
        pc' = "leave"]_vars

\* C20: once the main loop is left, one final save is attempted, never a
\* second one; the client is closed only after that save has ended, and it
\* is closed however the save ended.
C20_OneFinalSaveThenClose ==
  /\ final_saves <= 1
  /\ pc \in {"final_saving", "stopped"} => final_saves = 1
  /\ closed => (final_saves = 1 /\ spc = "idle" /\ pc = "stopped")
  /\ pc = "stopped" => closed
  /\ pc = "exited" => final_saves = 0
  /\ (main_task /\ shutdown_requested) => pc \in {"leave", "final_saving", "stopped"}

\* C20 witness: the loop was left, the one final save failed, and the client
\* was closed.
C20_Witness ==
  /\ pc = "stopped"
  /\ closed
  /\ final_saves = 1
  /\ ret = "save_failed"

\* C21: after a graceful shutdown whose final save succeeded, the state file
\* is a list that holds every identifier of the in-memory processed set,
\* the ones marked in a pass that the cancellation cut short included.
C21_FinalSaveHoldsProcessed ==
  (pc \in {"final_saving", "stopped"} /\ spc = "idle" /\ ret = "save_ok")
    => /\ file.kind = "list"
       /\ processed_ids \subseteq ValidIds(file.items)

\* The main loop was cancelled in a pass that had marked a tweet and had not
\* reached its save; the final save succeeded and the client was closed.
C21_Witness ==
  /\ pc = "stopped" /\ ret = "save_ok" /\ closed
  /\ marked /\ processed_ids # {}
  /\ committed.ids = processed_ids

\* C22: the bot's own identity is known from startup on, and no call of
\* the reply generator and no post is ever made for a tweet written by the
\* bot's own account or written in reply to it.
C22_NoReplyToSelf ==
  [][(GenCallStep \/ PostCallStep)
       => (Author(Cur) # OwnUser /\ InReplyToUser(Cur) # OwnUser)]_vars

\* C23: a tweet is skipped as empty only when its effective text is empty
\* or whitespace and it has no image reference; an unprocessed tweet with
\* empty text and an image reference goes to the reply generator.
C23_EmptyOnlyWithoutImages ==
  [][/\ (pc = "item" /\ i' = i + 1 /\ last'.ev = "skip_empty")
          => (Strip(text_for_gemini(Cur)) = "" /\ image_urls_for_gemini(Cur) = {})
     /\ (/\ pc = "item" /\ processed_count' = processed_count + 1
         /\ Strip(text_for_gemini(Cur)) = ""
         /\ image_urls_for_gemini(Cur) # {})
          => GenCallStep]_vars

\* C24: for a tweet that wraps a retweet, the reply generator is called
\* with the text of the retweeted original and with the wrapper's own
\* images, or the original's when the wrapper has none.
C24_RepostContent ==
  [][(GenCallStep /\ RetweetedStatus(Cur).present)
       => /\ last'.tweet_text = text_for_gemini(Cur)
          /\ last'.image_urls = image_urls_for_gemini(Cur)]_vars

\* C25: when the reply generator returns no usable text, the tweet is
\* marked processed, the error tally grows by exactly one, the replied
\* tally stays, and no post call is made for the tweet.
C25_NoReplyIsSoftFailure ==
  [][(pc = "gen" /\ last'.ev = "gen_empty")
       => /\ IsProcessed(processed_ids', Cur)
          /\ error_count' = error_count + 1
          /\ reply_count' = reply_count
          /\ processed_count' = processed_count
          /\ ~PostCallStep
          /\ hist'[Cur] = "no_reply"]_vars

\* The generator has just returned nothing for a tweet: it is in the set,
\* one error is counted and no reply.
C25_Witness ==
  /\ last.ev = "gen_empty"
  /\ IsProcessed(processed_ids, last.id)
  /\ error_count = 1 /\ reply_count = 0 /\ state_changed
  /\ hist[last.id] = "no_reply"

\* C26: mark_processed of an identifier that is already in the set leaves
\* the set as it was (same members, same size) and evicts nothing, also
\* when the set is at capacity.
C26_MarkIdempotent ==
  [][(MarkStep /\ IsProcessed(processed_ids, last'.id))
       => /\ processed_ids' = processed_ids
          /\ evicted' = evicted
          /\ evictedEver' = evictedEver]_vars

\* A present identifier has just been marked again on a set at capacity
\* from which nothing was ever evicted.
C26_Witness ==
  /\ pc = "harness" /\ ret = "mark" /\ last.ev = "mark"
  /\ Cardinality(processed_ids) = MaxMemorySize
  /\ IsProcessed(processed_ids, last.id)
  /\ ~evictedEver

\* C27: mark_processed of a new identifier on a set of exactly
\* max_memory_size members removes exactly one of them and inserts the
\* new one: the size is still max_memory_size and is_processed is true
\* of the new identifier.
C27_EvictsExactlyOne ==
  [][(/\ MarkStep
      /\ Cardinality(processed_ids) = MaxMemorySize
      /\ ~IsProcessed(processed_ids, last'.id))
       => /\ Cardinality(processed_ids \ processed_ids') = 1
          /\ processed_ids' \ processed_ids = {Digits(last'.id)}
          /\ Cardinality(processed_ids') = MaxMemorySize
          /\ IsProcessed(processed_ids', last'.id)]_vars

\* A new identifier has just been marked on a full set: a member was
\* evicted, the set is full and holds the new identifier.
C27_Witness ==
  /\ pc = "harness" /\ ret = "mark" /\ last.ev = "mark"
  /\ evicted
  /\ Cardinality(processed_ids) = MaxMemorySize
  /\ IsProcessed(processed_ids, last.id)

\* C28: a save that fails at any of its steps returns to its caller without
\* raising and leaves the in-memory set as it was; it is not tried again
\* inside the call; a save that succeeds writes the set as it is then.
C28_SaveFailureAbsorbed ==
  [][/\ (Saving /\ spc' = "idle" /\ ret' # "save_ok")
          => (ret' = "save_failed" /\ processed_ids' = processed_ids)
     /\ (spc = "save_except") => (spc' \in {"idle", "dead"})
     /\ (Saving /\ ret' = "save_ok")
          => (file' = JsonDump(SortedSeq(processed_ids)))]_vars

\* C29: one dispatch of one tweet calls mark_processed at most once and
\* tweet.reply at most once; it calls mark_processed exactly once when it
\* ends with the empty-text skip, without a generated reply, with a reply
\* posted, or with the not-found or forbidden error of the post.
C29_OneMarkOnePost ==
  [][/\ calls'.marks <= 1
     /\ calls'.posts <= 1
     /\ (/\ DispatchEnds
         /\ last'.ev \in {"skip_empty", "gen_empty", "ok", "NotFound", "Forbidden"})
          => calls'.marks = 1]_vars

\* A reply was posted for a tweet and the tweet was marked: one call each.
C29_Witness ==
  /\ last.ev = "ok"
  /\ calls = [marks |-> 1, posts |-> 1]
  /\ IsProcessed(processed_ids, last.id)

\* C30: the lock of the State Store is held only inside one load,
\* mark_processed or save call: never while the engine waits for the fetch,
\* the reply generator, the post, a pacing sleep or the interval sleep.
C30_LockOnlyInsideStoreCall ==
  lock => /\ Saving
          /\ pc \notin {"fetch", "gen", "post", "pace", "interval"}
          /\ pc \in {"summary", "final_saving"}

\* The end-of-pass save holds the lock while it writes the temp file.
C30_Witness ==
  /\ lock /\ pc = "summary" /\ spc = "save_write"
  /\ state_changed /\ marked

C32_QuoteComposite ==
  (pc \in {"explained", "explain_returned"} /\ tweets # <<>>) =>
    LET tw == tweets[1]
        rt == tw.retweeted_status
        qt == tw.quoted_status
    IN  /\ (qt.present /\ ~rt.present)
             => /\ last.tweet_text =
                     "Commenter's Text: " \o tw.text \o "\nOriginal Quoted Text: " \o qt.text
                /\ last.image_urls = IF tw.media # {} THEN tw.media ELSE qt.media
        /\ (qt.present /\ rt.present)
             => /\ last.tweet_text = rt.text
                /\ last.image_urls = IF tw.media # {} THEN tw.media ELSE rt.media

\* A quote tweet "gm" of "gm too", without media of its own, was extracted:
\* both labelled texts and the quoted tweet's image go to the explainer.
C32_Witness ==
  /\ pc = "explained"
  /\ tweets[1].text = "gm" /\ tweets[1].media = {}
  /\ ~tweets[1].retweeted_status.present
  /\ tweets[1].quoted_status = [present |-> TRUE, text |-> "gm too", media |-> {"quoted.jpg"}]
  /\ last.tweet_text = "Commenter's Text: gm\nOriginal Quoted Text: gm too"
  /\ last.image_urls = {"quoted.jpg"}

\* C33: once a shutdown signal was observed, no iteration is started and
\* the interval sleep is not entered any more: the loop is left after at
\* most the iteration that was running when the signal came.
C33_NoNewIterationAfterSignal ==
  [][shutdown_requested
       => /\ ~(pc # "fetch" /\ pc' = "fetch")
          /\ ~(pc # "interval" /\ pc' = "interval")
          /\ shutdown_requested']_vars

\* The signal came during the initial iteration, which ran to its summary;
\* the loop was not entered and the final save is next.
C33_Witness ==
  /\ shutdown_requested /\ pc = "leave"
  /\ last.ev = "summary" /\ last.checked > 0

\* C34: a tweet with text that every fetch returns, for which the generator
\* returns text and the post fails with transient errors only finitely
\* often, is in the end replied to and marked processed, and it is replied
\* to once only.
C34_RetryLiveness ==
  /\ <>(Wanted \in okEver /\ IsProcessed(processed_ids, Wanted))
  /\ [][(PostReturns({"ok"}) /\ Cur = Wanted) => Wanted \notin okEver]_vars

\* C35: a backup of the state file never overwrites a backup: no two
\* backups share a name, no backup changes or disappears, and a load that
\* renames the file aside adds exactly one backup, with the file's content,
\* under the first name of its reason that was not in use.
C35_BackupNeverOverwrites ==
  [][/\ baks \subseteq baks'
     /\ \A b1, b2 \in baks' :
          (b1.reason = b2.reason /\ b1.counter = b2.counter) => b1 = b2
     /\ (LoadStep /\ file # Absent /\ file' = Absent)
          => /\ Cardinality(baks') = Cardinality(baks) + 1
             /\ \A b \in baks' \ baks :
                  /\ b.content = file
                  /\ \A old \in baks :
                       old.reason = b.reason => old.counter # b.counter
                  /\ \A k \in 0..(b.counter - 1) :
                       \E old \in baks : old.reason = b.reason /\ old.counter = k]_vars

\* A third malformed file was backed up next to the two backups of earlier
\* recoveries, under the counter 2.
C35_Witness ==
  /\ ret = "load_ok" /\ file = Absent
  /\ \A k \in 0..2 : \E b \in baks : b.reason = "json_decode_error" /\ b.counter = k
  /\ Cardinality(baks) = 3

\* C36: in the build where NotFound is None, a forbidden, generic API or
\* unexpected error of tweet.reply is handled as in the build with NotFound:
\* it is counted in the error tally, a forbidden error marks the tweet
\* processed, and the pass goes on to the next tweet or to its end.
C36_FallbackStillHandled ==
  [][PostReturns({"Forbidden", "TwitterException", "Exception"}) =>
       /\ error_count' = error_count + 1
       /\ last'.ev = "Forbidden" => IsProcessed(processed_ids', Cur)
       /\ i' = i + 1 /\ pc' \in {"item", "flush"}]_vars

\* C37: when the generation service fails transiently (no model, no style,
\* deadline exceeded, API error, network error), generate_reply returns no
\* text instead of raising and the tweet is marked processed; while nothing
\* has been evicted, no generation and no post is attempted for a tweet
\* whose generation failed.
C37_TransientGenFailureMarks ==
  [][/\ (/\ pc = "gen"
         /\ last'.ev \in {"gen_empty", "gen_raised", "post_call"}
         /\ last'.cause \in TransientFailures)
          => /\ last'.ev = "gen_empty"
             /\ IsProcessed(processed_ids', Cur)
             /\ hist'[Cur] = "no_reply"
     /\ ((GenCallStep \/ PostCallStep) /\ hist[Cur] = "no_reply") => evictedEver]_vars

\* A later pass skips a tweet whose generation failed in an earlier
\* pass, nothing having been evicted.
C37_Witness ==
  /\ last.ev = "skip_processed"
  /\ hist[last.id] = "no_reply"
  /\ ~evictedEver

\* C38: at every point of a pass replied + errored <= considered. An item
\* that is a tweet and is not in the processed set adds one to considered
\* when its dispatch starts; an item that is not a tweet, or is already
\* processed, changes no counter; a dispatch adds one to at most one of
\* replied and errored, in the step that ends it.
C38_CountersPerItem ==
  [][/\ reply_count' + error_count' <= processed_count'
     /\ pc = "item" =>
          /\ processed_count' =
               IF Cur # NotATweet /\ Digits(Cur) \notin processed_ids
               THEN processed_count + 1 ELSE processed_count
          /\ reply_count' = reply_count /\ error_count' = error_count
     /\ (pc \in {"gen", "post"} /\ pc' \notin {"dead", "caught"}) =>
          /\ processed_count' = processed_count
          /\ reply_count' + error_count' \in
               {reply_count + error_count, reply_count + error_count + 1}
          /\ reply_count' >= reply_count /\ error_count' >= error_count
          /\ reply_count' + error_count' > reply_count + error_count => DispatchEnds
     /\ pc = "pace" => UNCHANGED <<processed_count, reply_count, error_count>>]_vars

\* The dispatch loop ends on an item that is not a tweet, after a tweet
\* replied to: one considered, one replied, none errored.
C38_Witness ==
  /\ pc = "flush"
  /\ last.ev = "skip_invalid"
  /\ processed_count = 1 /\ reply_count = 1 /\ error_count = 0

====
